---------------------------- MODULE Spec2Model ----------------------------
(***************************************************************************)
(* A model of the recommendation pipeline of src/src/preprocessing.rs,     *)
(* src/src/graph.rs and src/src/main.rs:                                   *)
(*   - build_graph_from_features  (specification SpecGraph)                *)
(*   - load_and_preprocess        (specification SpecPre)                  *)
(*   - Graph::new / Graph::neighbors / recommend (specification SpecRec)   *)
(* Row indices are 0-based as in the source; TLA+ sequences are 1-based,   *)
(* so row j of a matrix m is m[j + 1].                                     *)
(***************************************************************************)
EXTENDS Integers, Sequences, FiniteSets

VARIABLES
    \* build_graph_from_features
    features,           \* the feature matrix: a sequence of rows
    k,                  \* the number of neighbours to keep
    norms,              \* norms[i + 1]: the norm of row i
    graph,              \* graph[i + 1]: the neighbour list of row i
    i,                  \* the loop variable of `for i in 0..n`
    sims,               \* the sim_list of the last row handled, before the sort
    pc,                 \* "start", "loop", "done" or "panic"
    \* load_and_preprocess
    records,            \* the data rows of the file, each a sequence of fields
    numeric_cols,
    categorical_cols,
    mins,
    maxs,
    row_count,
    categorical_values, \* column name -> set of the values seen
    category_vecs,      \* column name -> sorted vector of the values
    feature_len,
    mat,
    r,                  \* the position of the reader in the current pass
    ppc,                \* "start", "pass1", "pass2", "done", "err", "panic"
    perr,               \* what ended the call early
    \* Graph and recommend
    adjacency,          \* the field of the Graph, or the argument of Graph::new
    node,
    rk,
    recs,
    rpc                 \* "new", "ready", "called"

gvars == <<features, k, norms, graph, i, sims, pc>>
pvars == <<records, numeric_cols, categorical_cols, mins, maxs, row_count,
           categorical_values, category_vecs, feature_len, mat, r, ppc, perr>>
rvars == <<adjacency, node, rk, recs, rpc>>
vars == <<gvars, pvars, rvars>>

\* Bounds of the model.
MaxN == 4
NCols == 2
MaxK == 3

Min(a, b) == IF a < b THEN a ELSE b

(***************************************************************************)
(* build_graph_from_features.  The entries of the matrix are the one-hot   *)
(* values 0.0 and 1.0.  A dot product of such rows is a small natural      *)
(* number, exact in f64.  A norm sqrt(s) is kept as its square s, and a    *)
(* similarity dot / (norm_i * norm_j) as the pair (num, den2) standing for *)
(* num / sqrt(den2): on these inputs two similarities are equal as f64     *)
(* values exactly when they are equal as reals, and ordered the same way.  *)
(* den2 = 0 with num = 0 is 0.0 / 0.0, which is NaN.                       *)
(***************************************************************************)
FeatVals == {0, 1}

RECURSIVE SumTo(_, _)
SumTo(f, n) == IF n = 0 THEN 0 ELSE f[n] + SumTo(f, n - 1)

\* row.dot(&other)
Dot(a, b) == SumTo([c \in 1..Len(a) |-> a[c] * b[c]], Len(a))

\* features.row(i).dot(&features.row(i)).sqrt(), kept as its square
Norm(m, x) == [sq |-> Dot(m[x + 1], m[x + 1])]

\* dot / (norms[i] * norms[j])
Sim(m, ns, x, y) ==
    [num |-> Dot(m[x + 1], m[y + 1]), den2 |-> ns[x + 1].sq * ns[y + 1].sq]

IsNaN(s) == s.num = 0 /\ s.den2 = 0

\* f64::partial_cmp on two similarities: None when either is NaN
PartialCmp(a, b) ==
    IF IsNaN(a) \/ IsNaN(b) THEN "None"
    ELSE LET l == a.num * a.num * b.den2
             h == b.num * b.num * a.den2
         IN  IF l < h THEN "Less" ELSE IF l > h THEN "Greater" ELSE "Equal"

\* the closure |a, b| b.1.partial_cmp(&a.1): None is what unwrap() panics on
CompareAscending(a, b) == PartialCmp(a.sim, b.sim)
Compare(a, b) == PartialCmp(b.sim, a.sim)

\* the sort's is_less: compare(a, b) == Less
IsLessOrEqual(a, b) == Compare(a, b) \in {"Less", "Equal"}
IsLess(a, b) == Compare(a, b) = "Less"

Panicked == [ok |-> FALSE, v |-> <<>>]
Sorted(v) == [ok |-> TRUE, v |-> v]

\* One insertion of the stable sort: x moves left past every element it is
\* less than; a comparison that gives None panics.
RECURSIVE InsertTail(_, _)
InsertTail(v, x) ==
    IF v = <<>> THEN Sorted(<<x>>)
    ELSE LET last == v[Len(v)] IN
         IF Compare(x, last) = "None" THEN Panicked
         ELSE IF IsLess(x, last)
              THEN LET rest == InsertTail(SubSeq(v, 1, Len(v) - 1), x) IN
                   IF rest.ok THEN Sorted(Append(rest.v, last)) ELSE Panicked
              ELSE Sorted(Append(v, x))

\* sim_list.sort_by(...): slices of fewer than two elements are returned as
\* they are, without a comparison.
RECURSIVE SortBy(_)
SortBy(v) ==
    IF Len(v) < 2 THEN Sorted(v)
    ELSE LET front == SortBy(SubSeq(v, 1, Len(v) - 1)) IN
         IF front.ok THEN InsertTail(front.v, v[Len(v)]) ELSE Panicked

\* (0..n).filter(|&j| j != i), in ascending order
RECURSIVE Range(_, _)
Range(lo, hi) == IF lo >= hi THEN <<>> ELSE <<lo>> \o Range(lo + 1, hi)

AllRows(n, x) == Range(0, n)
Others(n, x) == SelectSeq(Range(0, n), LAMBDA j : j # x)

\* the sim_list of row x: (j, similarity) for every other row j
SimList(m, ns, x) ==
    LET js == Others(Len(m), x)
    IN  [p \in 1..Len(js) |-> [j |-> js[p], sim |-> Sim(m, ns, x, js[p])]]

\* into_iter().take(k)
TakeAll(s, n) == s
Take(s, n) == SubSeq(s, 1, Min(n, Len(s)))

\* .map(|(j, _)| j).collect()
Indices(s) == [p \in 1..Len(s) |-> s[p].j]

Matrices == UNION {[1..n -> [1..NCols -> FeatVals]] : n \in 0..MaxN}

GIdle ==
    /\ features = <<>> /\ k = 0 /\ norms = <<>> /\ graph = <<>>
    /\ i = 0 /\ sims = <<>> /\ pc = "idle"

\* lines 141-145: the empty lists and the norms
Setup ==
    /\ pc = "start"
    /\ graph' = [x \in 1..Len(features) |-> <<>>]
    /\ norms' = [x \in 1..Len(features) |-> Norm(features, x - 1)]
    /\ i' = 0
    /\ pc' = "loop"
    /\ UNCHANGED <<features, k, sims, pvars, rvars>>

\* lines 147-159: one iteration of `for i in 0..n`
BuildRow ==
    /\ pc = "loop"
    /\ i < Len(features)
    /\ LET sim_list == SimList(features, norms, i)
           sorted == SortBy(sim_list)
       IN  /\ sims' = sim_list
           /\ IF sorted.ok
              THEN /\ graph' = [graph EXCEPT ![i + 1] = Indices(Take(sorted.v, k))]
                   /\ i' = i + 1
                   /\ pc' = "loop"
              ELSE /\ pc' = "panic"
                   /\ UNCHANGED <<graph, i>>
    /\ UNCHANGED <<features, k, norms, pvars, rvars>>

\* line 161: the graph is returned
ReturnGraph ==
    /\ pc = "loop"
    /\ i = Len(features)
    /\ pc' = "done"
    /\ UNCHANGED <<features, k, norms, graph, i, sims, pvars, rvars>>

GInit ==
    /\ features \in Matrices
    /\ k \in 0..MaxK
    /\ norms = <<>> /\ graph = <<>> /\ i = 0 /\ sims = <<>>
    /\ pc = "start"

(***************************************************************************)
(* f64 values of load_and_preprocess: the rational n / d in lowest terms   *)
(* with d >= 0, where 1/0 is +infinity, -1/0 is -infinity and 0/0 is NaN.  *)
(***************************************************************************)
Abs(x) == IF x < 0 THEN -x ELSE x
Sign(x) == IF x < 0 THEN -1 ELSE IF x > 0 THEN 1 ELSE 0

RECURSIVE Gcd(_, _)
Gcd(a, b) == IF b = 0 THEN a ELSE Gcd(b, a % b)

Ratio(n, d) ==
    IF d = 0 THEN [n |-> Sign(n), d |-> 0]
    ELSE LET g == Gcd(Abs(n), d) IN [n |-> n \div g, d |-> d \div g]

F(n) == [n |-> n, d |-> 1]
INFINITY == [n |-> 1, d |-> 0]
NEG_INFINITY == [n |-> -1, d |-> 0]
NAN == [n |-> 0, d |-> 0]

FIsNan(a) == a.n = 0 /\ a.d = 0
IsFinite(a) == a.d # 0

\* a < b on f64: false when either is NaN
FLt(a, b) ==
    IF FIsNan(a) \/ FIsNan(b) THEN FALSE
    ELSE IF a.d = 0 /\ b.d = 0 THEN a.n < b.n
    ELSE a.n * b.d < b.n * a.d

FGt(a, b) == FLt(b, a)

\* a - b on f64
FSub(a, b) ==
    IF FIsNan(a) \/ FIsNan(b) THEN NAN
    ELSE IF a.d = 0 /\ b.d = 0 THEN (IF a.n = b.n THEN NAN ELSE a)
    ELSE IF a.d = 0 THEN a
    ELSE IF b.d = 0 THEN [n |-> -b.n, d |-> 0]
    ELSE Ratio(a.n * b.d - b.n * a.d, a.d * b.d)

\* a / b on f64: x / 0.0 is an infinity and 0.0 / 0.0 is NaN
FDiv(a, b) ==
    IF FIsNan(a) \/ FIsNan(b) THEN NAN
    ELSE IF a.d = 0 /\ b.d = 0 THEN NAN
    ELSE IF b.d = 0 THEN F(0)
    ELSE Ratio(a.n * b.d * Sign(b.n), a.d * Abs(b.n))

\* line 79: (v - mins[j]) / (maxs[j] - mins[j])
Scaled(v, mn, mx) == FDiv(FSub(v, mn), FSub(mx, mn))

(***************************************************************************)
(* The table.  The header is fixed; a field is one of four strings.       *)
(***************************************************************************)
MaxRows == 2

Header == <<"price", "brand">>
Fields == {"1.0", "2.0", "A", "B"}

\* the bytes of a field, which String's Ord compares
Bytes(s) ==
    CASE s = "1.0" -> <<49, 46, 48>>
      [] s = "2.0" -> <<50, 46, 48>>
      [] s = "A" -> <<65>>
      [] s = "B" -> <<66>>

RECURSIVE BytesLess(_, _)
BytesLess(a, b) ==
    IF b = <<>> THEN FALSE
    ELSE IF a = <<>> THEN TRUE
    ELSE IF a[1] # b[1] THEN a[1] < b[1]
    ELSE BytesLess(Tail(a), Tail(b))

StrGreater(a, b) == BytesLess(Bytes(b), Bytes(a))
StrLess(a, b) == BytesLess(Bytes(a), Bytes(b))

\* rec[index].parse::<f64>()
ParseF64(s) ==
    CASE s = "1.0" -> [ok |-> TRUE, v |-> F(1)]
      [] s = "2.0" -> [ok |-> TRUE, v |-> F(2)]
      [] s = "A" -> [ok |-> FALSE, v |-> NAN]
      [] s = "B" -> [ok |-> FALSE, v |-> NAN]

\* lines 20-21: header name -> 0-based position
HeaderMap ==
    [h \in {Header[x] : x \in 1..Len(Header)} |->
        (CHOOSE x \in 1..Len(Header) :
            /\ Header[x] = h
            /\ \A y \in 1..Len(Header) : Header[y] = h => y <= x) - 1]

\* rec[header_map[col]]
Field(rec, col) == rec[HeaderMap[col] + 1]

\* lines 34-39: the numeric statistics of one record, column by column;
\* header_map[col] panics on a missing name and parse()? returns the error
RECURSIVE NumericStats(_, _, _, _, _)
NumericStats(rec, cols, j, mn, mx) ==
    IF j > Len(cols) THEN [st |-> "ok", mins |-> mn, maxs |-> mx]
    ELSE IF cols[j] \notin DOMAIN HeaderMap
         THEN [st |-> "panic", mins |-> mn, maxs |-> mx]
    ELSE LET p == ParseF64(Field(rec, cols[j])) IN
         IF ~p.ok THEN [st |-> "err", mins |-> mn, maxs |-> mx]
         ELSE NumericStats(rec, cols, j + 1,
                  IF FLt(p.v, mn[j]) THEN [mn EXCEPT ![j] = p.v] ELSE mn,
                  IF FGt(p.v, mx[j]) THEN [mx EXCEPT ![j] = p.v] ELSE mx)

\* categorical_values.entry(col).or_insert_with(HashSet::new).insert(value)
Insert(cv, col, value) ==
    [c \in DOMAIN cv \cup {col} |->
        IF c = col THEN (IF c \in DOMAIN cv THEN cv[c] ELSE {}) \cup {value}
        ELSE cv[c]]

\* lines 41-46: the categories of one record
RECURSIVE CollectCategories(_, _, _, _)
CollectCategories(rec, cols, j, cv) ==
    IF j > Len(cols) THEN [st |-> "ok", cv |-> cv]
    ELSE IF cols[j] \notin DOMAIN HeaderMap THEN [st |-> "panic", cv |-> cv]
    ELSE CollectCategories(rec, cols, j + 1,
             Insert(cv, cols[j], Field(rec, cols[j])))

\* lines 53-54: the set as a vector, sorted ascending
RECURSIVE SortedDescending(_)
SortedDescending(set) ==
    IF set = {} THEN <<>>
    ELSE LET m == CHOOSE x \in set : \A y \in set : ~StrGreater(y, x)
         IN  <<m>> \o SortedDescending(set \ {m})
RECURSIVE SortedVec(_)
SortedVec(set) ==
    IF set = {} THEN <<>>
    ELSE LET m == CHOOSE x \in set : \A y \in set : ~StrLess(y, x)
         IN  <<m>> \o SortedVec(set \ {m})

\* lines 59-63: feature_len; category_vecs[col] panics on a missing key
RECURSIVE FeatureLen(_, _, _, _)
FeatureLen(cols, j, vecs, acc) ==
    IF j > Len(cols) THEN [st |-> "ok", len |-> acc]
    ELSE IF cols[j] \notin DOMAIN vecs THEN [st |-> "panic", len |-> acc]
    ELSE FeatureLen(cols, j + 1, vecs, acc + Len(vecs[cols[j]]))

\* line 88: one position of a one-hot block
OneHotNever(value, cat) == F(0)
OneHot(value, cat) == IF value = cat THEN F(1) ELSE F(0)

\* lines 75-82: the scaled numerics of one record
RECURSIVE NumericPart(_, _, _, _, _)
NumericPart(rec, cols, j, mn, mx) ==
    IF j > Len(cols) THEN [st |-> "ok", v |-> <<>>]
    ELSE IF cols[j] \notin DOMAIN HeaderMap THEN [st |-> "panic", v |-> <<>>]
    ELSE LET p == ParseF64(Field(rec, cols[j])) IN
         IF ~p.ok THEN [st |-> "err", v |-> <<>>]
         ELSE LET rest == NumericPart(rec, cols, j + 1, mn, mx) IN
              IF rest.st # "ok" THEN rest
              ELSE [st |-> "ok", v |-> <<Scaled(p.v, mn[j], mx[j])>> \o rest.v]

\* lines 84-92: the one-hot blocks of one record
RECURSIVE CategoricalPart(_, _, _, _)
CategoricalPart(rec, cols, j, vecs) ==
    IF j > Len(cols) THEN [st |-> "ok", v |-> <<>>]
    ELSE IF cols[j] \notin DOMAIN HeaderMap \/ cols[j] \notin DOMAIN vecs
         THEN [st |-> "panic", v |-> <<>>]
    ELSE LET rest == CategoricalPart(rec, cols, j + 1, vecs)
             vec == vecs[cols[j]]
         IN  IF rest.st # "ok" THEN rest
             ELSE [st |-> "ok",
                   v |-> [c \in 1..Len(vec) |-> OneHot(Field(rec, cols[j]), vec[c])]
                         \o rest.v]

\* Array2::zeros((row_count, feature_len))
Zeros(rows, cols) == [x \in 1..rows |-> [c \in 1..cols |-> F(0)]]

Tables == UNION {[1..n -> [1..Len(Header) -> Fields]] : n \in 0..MaxRows}
NumericChoices ==
    {<<>>, <<"price">>, <<"price", "brand">>, <<"rating">>, <<"price", "rating">>}
CategoricalChoices ==
    {<<>>, <<"brand">>, <<"brand", "price">>, <<"rating">>, <<"brand", "rating">>}

PIdle ==
    /\ records = <<>> /\ numeric_cols = <<>> /\ categorical_cols = <<>>
    /\ mins = <<>> /\ maxs = <<>> /\ row_count = 0
    /\ categorical_values = <<>> /\ category_vecs = <<>>
    /\ feature_len = 0 /\ mat = <<>> /\ r = 0 /\ ppc = "idle" /\ perr = ""

PInit ==
    /\ records \in Tables
    /\ numeric_cols \in NumericChoices
    /\ categorical_cols \in CategoricalChoices
    /\ mins = <<>> /\ maxs = <<>> /\ row_count = 0
    /\ categorical_values = <<>> /\ category_vecs = <<>>
    /\ feature_len = 0 /\ mat = <<>> /\ r = 0 /\ ppc = "start" /\ perr = ""

\* lines 17-28: the reader is opened and the accumulators are initialised
OpenReader ==
    /\ ppc = "start"
    /\ mins' = [j \in 1..Len(numeric_cols) |-> INFINITY]
    /\ maxs' = [j \in 1..Len(numeric_cols) |-> NEG_INFINITY]
    /\ row_count' = 0
    /\ categorical_values' = <<>>
    /\ r' = 0
    /\ ppc' = "pass1"
    /\ UNCHANGED <<records, numeric_cols, categorical_cols, category_vecs,
                   feature_len, mat, perr, gvars, rvars>>

\* lines 30-47: one record of the first pass
Pass1Row ==
    /\ ppc = "pass1"
    /\ r < Len(records)
    /\ row_count' = row_count + 1
    /\ LET rec == records[r + 1]
           num == NumericStats(rec, numeric_cols, 1, mins, maxs)
           cat == CollectCategories(rec, categorical_cols, 1, categorical_values)
       IN  IF num.st # "ok"
           THEN /\ ppc' = num.st
                /\ perr' = IF num.st = "panic" THEN "key not found" ELSE "invalid float literal"
                /\ UNCHANGED <<mins, maxs, categorical_values, r>>
           ELSE /\ mins' = num.mins
                /\ maxs' = num.maxs
                /\ IF cat.st # "ok"
                   THEN /\ ppc' = "panic"
                        /\ perr' = "key not found"
                        /\ UNCHANGED <<categorical_values, r>>
                   ELSE /\ categorical_values' = cat.cv
                        /\ r' = r + 1
                        /\ UNCHANGED <<ppc, perr>>
    /\ UNCHANGED <<records, numeric_cols, categorical_cols, category_vecs,
                   feature_len, mat, gvars, rvars>>

\* lines 49-69: the vocabularies are sorted, the matrix is allocated and
\* the second reader is opened
Freeze ==
    /\ ppc = "pass1"
    /\ r = Len(records)
    /\ LET vecs == [c \in DOMAIN categorical_values |->
                       SortedVec(categorical_values[c])]
           fl == FeatureLen(categorical_cols, 1, vecs, Len(numeric_cols))
       IN  /\ category_vecs' = vecs
           /\ IF fl.st = "ok"
              THEN /\ feature_len' = fl.len
                   /\ mat' = Zeros(row_count, fl.len)
                   /\ r' = 0
                   /\ ppc' = "pass2"
                   /\ UNCHANGED perr
              ELSE /\ ppc' = "panic"
                   /\ perr' = "key not found"
                   /\ UNCHANGED <<feature_len, mat, r>>
    /\ UNCHANGED <<records, numeric_cols, categorical_cols, mins, maxs,
                   row_count, categorical_values, gvars, rvars>>

\* lines 71-93: one record of the second pass
Pass2Row ==
    /\ ppc = "pass2"
    /\ r < Len(records)
    /\ LET rec == records[r + 1]
           num == NumericPart(rec, numeric_cols, 1, mins, maxs)
           cat == CategoricalPart(rec, categorical_cols, 1, category_vecs)
       IN  IF num.st # "ok"
           THEN /\ ppc' = num.st
                /\ perr' = IF num.st = "panic" THEN "key not found" ELSE "invalid float literal"
                /\ UNCHANGED <<mat, r>>
           ELSE IF cat.st # "ok"
           THEN /\ ppc' = "panic"
                /\ perr' = "key not found"
                /\ UNCHANGED <<mat, r>>
           ELSE /\ mat' = [mat EXCEPT ![r + 1] = num.v \o cat.v]
                /\ r' = r + 1
                /\ UNCHANGED <<ppc, perr>>
    /\ UNCHANGED <<records, numeric_cols, categorical_cols, mins, maxs, row_count,
                   categorical_values, category_vecs, feature_len, gvars, rvars>>

\* line 95: Ok(mat)
ReturnMat ==
    /\ ppc = "pass2"
    /\ r = Len(records)
    /\ ppc' = "done"
    /\ UNCHANGED <<records, numeric_cols, categorical_cols, mins, maxs, row_count,
                   categorical_values, category_vecs, feature_len, mat, r, perr,
                   gvars, rvars>>

(***************************************************************************)
(* Graph::new, Graph::neighbors and recommend.                             *)
(***************************************************************************)
MaxNodes == 2
MaxNbrs == 2

NbrVals == {0, 1}

\* self.adjacency.get(node): None when node is out of range
Neighbors(adj, nd) ==
    IF nd < Len(adj) THEN [some |-> TRUE, v |-> adj[nd + 1]]
    ELSE [some |-> FALSE, v |-> <<>>]

\* graph.neighbors(node).map(|neigh| ...take(k).collect()).unwrap_or_default()
RecommendAll(adj, nd, kk) ==
    LET neigh == Neighbors(adj, nd) IN IF neigh.some THEN neigh.v ELSE <<>>
Recommend(adj, nd, kk) ==
    LET neigh == Neighbors(adj, nd)
    IN  IF neigh.some THEN Take(neigh.v, kk) ELSE <<>>

NbrLists == UNION {[1..n -> NbrVals] : n \in 0..MaxNbrs}
AdjLists == UNION {[1..n -> NbrLists] : n \in 0..MaxNodes}

RIdle ==
    /\ adjacency = <<>> /\ node = 0 /\ rk = 0 /\ recs = <<>> /\ rpc = "idle"

RInit ==
    /\ adjacency = <<>> /\ node = 0 /\ rk = 0 /\ recs = <<>> /\ rpc = "new"

\* Graph::new(adjacency)
GraphNew ==
    /\ rpc = "new"
    /\ \E adj \in AdjLists : adjacency' = adj
    /\ rpc' = "ready"
    /\ UNCHANGED <<node, rk, recs, gvars, pvars>>

\* recommend(&graph, node, k)
CallRecommend ==
    /\ rpc \in {"ready", "called"}
    /\ \E nd \in 0..(MaxNodes + 1), kk \in 0..MaxK :
          /\ node' = nd
          /\ rk' = kk
          /\ recs' = Recommend(adjacency, nd, kk)
    /\ rpc' = "called"
    /\ UNCHANGED <<adjacency, gvars, pvars>>

(***************************************************************************)
(* The specifications.                                                     *)
(***************************************************************************)
InitGraph == GInit /\ PIdle /\ RIdle
NextGraph == Setup \/ BuildRow \/ ReturnGraph
SpecGraph == InitGraph /\ [][NextGraph]_vars

InitPre == PInit /\ GIdle /\ RIdle
NextPre == OpenReader \/ Pass1Row \/ Freeze \/ Pass2Row \/ ReturnMat
SpecPre == InitPre /\ [][NextPre]_vars

InitRec == RInit /\ GIdle /\ PIdle
NextRec == GraphNew \/ CallRecommend
SpecRec == InitRec /\ [][NextRec]_vars

(***************************************************************************)
(* Properties of build_graph_from_features, under SpecGraph.               *)
(***************************************************************************)
N == Len(features)
Rows == 0..(N - 1)
Returned == pc = "done"
Ended == pc \in {"done", "panic"}

\* the similarity of rows x and y as the build computes it
SimOf(x, y) == Sim(features, norms, x, y)
Positions(x) == 1..Len(graph[x + 1])
Listed(x) == {graph[x + 1][p] : p \in Positions(x)}
ZeroRow(x) == \A c \in 1..Len(features[x + 1]) : features[x + 1][c] = 0

\* C1: for every feature matrix with n rows and every k >= 0 the build
\* returns n neighbour lists, the list of every row of length min(k, n-1).
C1_TopKBound ==
    Ended => /\ Returned
             /\ Len(graph) = N
             /\ \A x \in Rows : Len(graph[x + 1]) = Min(k, N - 1)

\* The top-k bound on the builds that return.
TopKBoundOnReturn ==
    Returned => /\ Len(graph) = N
                /\ \A x \in Rows : Len(graph[x + 1]) = Min(k, N - 1)

\* C2: in the returned graph the list of every row i is sorted by
\* non-increasing similarity to i, and no row left out of it is strictly
\* more similar to i than a row in it.
C2_Ranking ==
    Returned =>
        \A x \in Rows :
            /\ \A p, q \in Positions(x) :
                  p < q => PartialCmp(SimOf(x, graph[x + 1][p]),
                                      SimOf(x, graph[x + 1][q])) \in {"Greater", "Equal"}
            /\ \A y \in Rows \ (Listed(x) \cup {x}) : \A p \in Positions(x) :
                  PartialCmp(SimOf(x, y), SimOf(x, graph[x + 1][p])) \in {"Less", "Equal"}

\* a returned graph in which the sort moved a later row in front of an
\* earlier one and the cut left a strictly less similar row out
C2_Witness ==
    /\ Returned
    /\ \E x \in Rows :
          /\ \E p, q \in Positions(x) :
                /\ p < q /\ graph[x + 1][p] > graph[x + 1][q]
                /\ PartialCmp(SimOf(x, graph[x + 1][p]),
                              SimOf(x, graph[x + 1][q])) = "Greater"
          /\ \E y \in Rows \ (Listed(x) \cup {x}) : \A p \in Positions(x) :
                PartialCmp(SimOf(x, y), SimOf(x, graph[x + 1][p])) = "Less"

\* C3: the neighbour list of row i never contains i, holds only row
\* indices 0..n-1, and holds each at most once.
C3_SelfExclusion ==
    pc \in {"loop", "done", "panic"} =>
        \A x \in Rows :
            /\ \A p \in Positions(x) : graph[x + 1][p] \in Rows \ {x}
            /\ \A p, q \in Positions(x) : p # q => graph[x + 1][p] # graph[x + 1][q]

\* a returned graph of three rows or more in which every list is full
C3_Witness ==
    /\ Returned
    /\ N >= 3
    /\ \A x \in Rows : Len(graph[x + 1]) = N - 1

\* C7: with an all-zero row in the matrix every similarity is a defined
\* value, no NaN enters the ranking, and the build runs to completion.
C7_ZeroNormDefined ==
    (\E x \in Rows : ZeroRow(x)) =>
        /\ pc # "panic"
        /\ \A p \in 1..Len(sims) : ~IsNaN(sims[p].sim)

\* C10: rows whose similarity to row i is exactly equal keep ascending row
\* index, in the list and across its cut; for rows [1,0], [1,0], [0,1] and
\* k = 1 the lists are [1], [0] and [0].
C10_TieBreak ==
    Returned =>
        /\ \A x \in Rows :
              /\ \A p, q \in Positions(x) :
                    (p < q /\ PartialCmp(SimOf(x, graph[x + 1][p]),
                                         SimOf(x, graph[x + 1][q])) = "Equal")
                        => graph[x + 1][p] < graph[x + 1][q]
              /\ \A y \in Rows \ (Listed(x) \cup {x}) : \A p \in Positions(x) :
                    PartialCmp(SimOf(x, y), SimOf(x, graph[x + 1][p])) = "Equal"
                        => graph[x + 1][p] < y
        /\ (features = <<<<1, 0>>, <<1, 0>>, <<0, 1>>>> /\ k = 1)
              => graph = <<<<1>>, <<0>>, <<0>>>>

\* the scenario has returned: row 2 is tied between rows 0 and 1
C10_Witness ==
    /\ Returned
    /\ features = <<<<1, 0>>, <<1, 0>>, <<0, 1>>>>
    /\ k = 1
    /\ PartialCmp(SimOf(2, 0), SimOf(2, 1)) = "Equal"
    /\ graph[3] = <<0>>

(***************************************************************************)
(* Properties of recommend, under SpecRec.                                 *)
(***************************************************************************)
\* C4: recommend returns the first min(k, len) entries of the list stored
\* for node, in stored order, and the empty sequence when node is out of
\* range.
C4_Recommend ==
    rpc = "called" =>
        IF node < Len(adjacency)
        THEN /\ Len(recs) = Min(rk, Len(adjacency[node + 1]))
             /\ \A p \in 1..Len(recs) : recs[p] = adjacency[node + 1][p]
        ELSE recs = <<>>

\* a lookup past the end of a graph that has nodes, with k > 0
C4_Witness ==
    /\ rpc = "called"
    /\ Len(adjacency) > 0
    /\ \A x \in 1..Len(adjacency) : adjacency[x] # <<>>
    /\ node >= Len(adjacency)
    /\ rk > 0
    /\ recs = <<>>

(***************************************************************************)
(* Properties of load_and_preprocess, under SpecPre.                       *)
(***************************************************************************)
PEnded == ppc \in {"done", "err", "panic"}
Names(cols) == {cols[j] : j \in 1..Len(cols)}
InHeader(col) == \E x \in 1..Len(Header) : Header[x] = col
ColumnOf(col) == CHOOSE x \in 1..Len(Header) : Header[x] = col

\* the values of a column over the whole table
Vocabulary(col) == {records[x][ColumnOf(col)] : x \in 1..Len(records)}

RECURSIVE BlockOffset(_)
BlockOffset(c) ==
    IF c = 1 THEN Len(numeric_cols)
    ELSE BlockOffset(c - 1) + Cardinality(Vocabulary(categorical_cols[c - 1]))

\* the 1-based place of a value in the sorted vocabulary of its column
PlaceOf(col, value) ==
    1 + Cardinality({u \in Vocabulary(col) : StrLess(u, value)})

WellFormed ==
    /\ \A col \in Names(numeric_cols) \cup Names(categorical_cols) : InHeader(col)
    /\ \A col \in Names(numeric_cols) : \A x \in 1..Len(records) :
          ParseF64(records[x][ColumnOf(col)]).ok

\* C5: in the returned matrix, for every row and every categorical column,
\* the block of the column holds 1.0 at the place of the row's value in
\* the sorted, deduplicated vocabulary of the column and 0.0 elsewhere.
C5_OneHot ==
    ppc = "done" =>
        \A x \in 1..Len(records) : \A c \in 1..Len(categorical_cols) :
            LET col == categorical_cols[c] IN
            \A q \in 1..Cardinality(Vocabulary(col)) :
                mat[x][BlockOffset(c) + q] =
                    IF q = PlaceOf(col, records[x][ColumnOf(col)]) THEN F(1) ELSE F(0)

\* a returned matrix for a column whose first record holds a value that
\* sorts after the value of a later record
C5_Witness ==
    /\ ppc = "done"
    /\ \E c \in 1..Len(categorical_cols) :
          LET col == categorical_cols[c] IN
          \E x, y \in 1..Len(records) :
              /\ x < y
              /\ StrLess(records[y][ColumnOf(col)], records[x][ColumnOf(col)])
              /\ mat[x][BlockOffset(c) + 2] = F(1)
              /\ mat[y][BlockOffset(c) + 1] = F(1)

\* C6: on a well-formed table of n >= 0 rows the call returns a matrix of
\* n rows and |numeric_cols| + (sum of the distinct counts) columns.
C6_Shape ==
    (WellFormed /\ PEnded) =>
        /\ ppc = "done"
        /\ Len(mat) = Len(records)
        /\ \A x \in 1..Len(mat) :
              Len(mat[x]) = BlockOffset(Len(categorical_cols) + 1)

\* The shape of the returned matrix on the well-formed tables that have a
\* data row or are read with no categorical column.
ShapeWithRowsOrNoCategories ==
    (WellFormed /\ PEnded /\ (Len(records) >= 1 \/ categorical_cols = <<>>)) =>
        /\ ppc = "done"
        /\ Len(mat) = Len(records)
        /\ \A x \in 1..Len(mat) :
              Len(mat[x]) = BlockOffset(Len(categorical_cols) + 1)

\* C8: for a numeric column that is constant over the table no NaN and no
\* infinite value is written into the returned matrix.
C8_ConstantColumn ==
    ppc = "done" =>
        \A j \in 1..Len(numeric_cols) :
            mins[j] = maxs[j] => \A x \in 1..Len(mat) : IsFinite(mat[x][j])

\* C9: with a column name that is not in the header the call returns a
\* "column not found" error, before any row is processed, and no matrix.
C9_ColumnNotFound ==
    ((\E col \in Names(numeric_cols) \cup Names(categorical_cols) : ~InHeader(col))
        /\ PEnded) =>
            /\ ppc = "err"
            /\ perr = "column not found"
            /\ row_count = 0

=============================================================================
